---- MODULE Spec2Model ----
(***************************************************************************)
(* Deployment orchestration, health monitoring, alerting and metrics       *)
(* retention of DeploymentMonitoringSystem (src/unnamed/part_001).         *)
(*                                                                         *)
(* The class keeps four process-wide maps.  Three of them carry state the  *)
(* properties below are about: deploymentStatus (jobs), systemHealth (the  *)
(* last health result and the overall status) and monitoringMetrics (the   *)
(* bounded sample store).  Every async method is cut at its awaits: the    *)
(* code between two awaits runs without interruption on the event loop and *)
(* is one action here.                                                     *)
(***************************************************************************)
EXTENDS Integers, Sequences, FiniteSets, TLC

VARIABLES
    clock,             \* Date.now() / new Date(), in milliseconds
    jobs,              \* the job objects ever created (the heap), in creation order
    deploymentStatus,  \* this.deploymentStatus: deployment id -> index into jobs
    runs,              \* the executeFullDeployment invocations and where each stands
    responses,         \* the res.json bodies deployFullSystem has sent
    notifications,     \* the messages sendDeploymentNotification has logged
    lastRun,           \* the pipeline run that took the latest step (0: none yet)
    switches,          \* how often a run was preempted by another one so far
    systemHealth,      \* this.systemHealth: overall_status and last_health_check
    checks,            \* the performHealthChecks invocations and where each stands
    monitoringMetrics, \* this.monitoringMetrics: key (ms of the store) -> sample
    collections,       \* the collectPerformanceMetrics invocations
    dropped,           \* the samples the store no longer holds (evicted or overwritten)
    scheduled,         \* the periodic tasks cron.schedule has registered and not stopped
    pings,             \* the performQuickHealthChecks invocations and where each stands
    sweep,             \* one comprehensive check's probing, probe by probe
    rollout            \* one pipeline's AI Agents stage, sub-step by sub-step

deployVars == <<jobs, deploymentStatus, runs, responses, notifications, lastRun, switches>>

healthVars == <<systemHealth, checks>>

metricsVars == <<monitoringMetrics, collections, dropped>>

schedulerVars == <<scheduled, pings>>

sweepVars == <<sweep>>

rolloutVars == <<rollout>>

vars == <<clock, deployVars, healthVars, metricsVars, schedulerVars, sweepVars, rolloutVars>>

(***************************************************************************)
(* Bounds of the model.                                                    *)
(***************************************************************************)
\* Deployment requests served in one behaviour.
MaxRequests == 2

\* The last millisecond the deployment clock reaches.
MaxDeployClock == 1

\* Preemptions of a deployment run that has not ended by another run.
MaxSwitches == 1

(***************************************************************************)
(* Small helpers.                                                          *)
(***************************************************************************)
\* A Date field that was never assigned (undefined in the code).
NoDate == 0 - 1

(***************************************************************************)
(* The deployment pipeline.                                                *)
(***************************************************************************)
\* The stage names of executeFullDeployment, in the order of its statements.
Stages ==
    << "Environment Setup", "Database Migration", "Core Services", "AI Agents",
       "Integration Testing", "Health Verification", "Production Activation" >>

NumStages == Len(Stages)

\* `deploy_${Date.now()}`: the id is the millisecond of the request.
DeploymentId(now) == now

\* The record deployFullSystem stores under the new id.
NewDeployment(now) ==
    [ status       |-> "initializing",
      started_at   |-> now,
      steps        |-> << >>,
      error        |-> "none",
      completed_at |-> NoDate,
      failed_at    |-> NoDate,
      success      |-> FALSE ]

\* deployment.steps.push({name, status, timestamp: new Date()})
PushStep(job, stepName, status, now) ==
    [job EXCEPT !.steps = Append(@, [name |-> stepName, status |-> status, timestamp |-> now])]

\* updateDeploymentStep: looks the job up by id again on every call and appends.
updateDeploymentStep(heap, map, deploymentId, stepName, status, now) ==
    IF deploymentId \in DOMAIN map
    THEN [heap EXCEPT ![map[deploymentId]] = PushStep(@, stepName, status, now)]
    ELSE heap

\* executeFullDeployment awaited by the handler: the whole pipeline has run and
\* the job is completed before the response is built.
ExecuteAwaited(heap, map, deploymentId, now) ==
    [heap EXCEPT ![map[deploymentId]] =
        [@ EXCEPT !.status = "completed", !.completed_at = now, !.success = TRUE,
                  !.steps = [i \in 1..(2 * NumStages) |->
                        [name      |-> Stages[(i + 1) \div 2],
                         status    |-> IF i % 2 = 1 THEN "running" ELSE "completed",
                         timestamp |-> now]]]]

\* The part of executeFullDeployment that runs inside the call made by
\* deployFullSystem: up to its first await, i.e. the 'running' entry of stage 1.
ExecuteStart(heap, map, deploymentId, now) ==
    updateDeploymentStep(heap, map, deploymentId, Stages[1], "running", now)

\* The catch block's assignments, on the job found under the id at that moment.
MarkFailed(heap, map, deploymentId, message, now) ==
    [heap EXCEPT ![map[deploymentId]] =
        [@ EXCEPT !.status = "failed", !.error = message, !.failed_at = now]]

\* The three assignments after the last stage, on the job captured at the start.
MarkCompleted(heap, dep, now) ==
    [heap EXCEPT ![dep] =
        [@ EXCEPT !.status = "completed", !.completed_at = now, !.success = TRUE]]

\* sendDeploymentNotification looks the job up by id; for 'success' it formats
\* deployment.completed_at, which throws when that field is undefined.
NotificationRaises(heap, map, deploymentId, kind) ==
    kind = "success" /\ heap[map[deploymentId]].completed_at = NoDate

Notify(deploymentId, kind) ==
    Append(notifications, [id |-> deploymentId, kind |-> kind])

\* Bounded preemption: run r may step when it stepped last, when the run that
\* stepped last has ended, or by spending one of the MaxSwitches preemptions.
Preempts(r) == lastRun # 0 /\ lastRun # r /\ runs[lastRun].pc # "end"

Schedule(r) ==
    /\ Preempts(r) => switches < MaxSwitches
    /\ switches' = IF Preempts(r) THEN switches + 1 ELSE switches
    /\ lastRun' = r

\* requiredVars of setupEnvironment, in the order the loop tests them.
RequiredVars ==
    << "SUPABASE_URL", "SUPABASE_ANON_KEY", "CLAUDE_API_KEY", "ELEVENLABS_API_KEY",
       "OPENAI_API_KEY", "WHATSAPP_ACCESS_TOKEN", "FLUTTERWAVE_SECRET_KEY",
       "GMAIL_CLIENT_ID" >>

\* `Missing required environment variable: ${varName}`, per required variable.
MissingMessages ==
    << "Missing required environment variable: SUPABASE_URL",
       "Missing required environment variable: SUPABASE_ANON_KEY",
       "Missing required environment variable: CLAUDE_API_KEY",
       "Missing required environment variable: ELEVENLABS_API_KEY",
       "Missing required environment variable: OPENAI_API_KEY",
       "Missing required environment variable: WHATSAPP_ACCESS_TOKEN",
       "Missing required environment variable: FLUTTERWAVE_SECRET_KEY",
       "Missing required environment variable: GMAIL_CLIENT_ID" >>

\* The loop of setupEnvironment: the first required variable that is neither
\* in process.env nor in the config (0: every one is present).
FirstMissing(present) ==
    IF \A i \in DOMAIN RequiredVars : RequiredVars[i] \in present THEN 0
    ELSE CHOOSE i \in DOMAIN RequiredVars :
            /\ RequiredVars[i] \notin present
            /\ \A j \in 1..(i - 1) : RequiredVars[j] \in present

\* The error setupEnvironment throws for the keys present, "stage error" standing
\* for a rejection of fs.writeFile.
SetupError(present) ==
    IF FirstMissing(present) = 0 THEN "stage error"
    ELSE MissingMessages[FirstMissing(present)]

\* The required keys found in process.env or in the request's config, per
\* request: all of them, all but the first, all but the third and the last.
AllRequired == {RequiredVars[i] : i \in DOMAIN RequiredVars}

PresentKeys ==
    { AllRequired,
      AllRequired \ {"SUPABASE_URL"},
      AllRequired \ {"CLAUDE_API_KEY", "GMAIL_CLIENT_ID"} }

\* POST /api/deploy/full-system; present holds the required variables that are
\* in process.env or in the request's config.
DeployFullSystem(present) ==
    /\ Len(runs) < MaxRequests
    /\ LET id   == DeploymentId(clock)
           dep  == Len(jobs) + 1
           map  == [k \in DOMAIN deploymentStatus \cup {id} |->
                        IF k = id THEN dep ELSE deploymentStatus[k]]
           heap == ExecuteStart(Append(jobs, NewDeployment(clock)), map, id, clock)
       IN /\ deploymentStatus' = map
          /\ jobs' = heap
          /\ runs' = Append(runs, [id |-> id, dep |-> dep, pc |-> "exec", stage |-> 1,
                                   configComplete |-> FirstMissing(present) = 0,
                                   present |-> present, wrote |-> FALSE,
                                   raisedAt |-> 0, failedJob |-> 0])
          /\ responses' = Append(responses,
                [deployment_id |-> id,
                 found         |-> id \in DOMAIN map,
                 job_status    |-> heap[map[id]].status,
                 job_steps     |-> heap[map[id]].steps])
    /\ UNCHANGED <<clock, notifications, lastRun, switches, healthVars, metricsVars, schedulerVars, sweepVars, rolloutVars>>

\* The awaited stage operation resolves; the 'completed' entry is appended.
\* Environment Setup resolves only when no required variable is missing, after
\* its fs.writeFile of the deployment configuration.
StageReturns(r) ==
    /\ runs[r].pc = "exec"
    /\ runs[r].stage = 1 => runs[r].configComplete
    /\ Schedule(r)
    /\ jobs' = updateDeploymentStep(jobs, deploymentStatus, runs[r].id,
                                    Stages[runs[r].stage], "completed", clock)
    /\ runs' = [runs EXCEPT ![r].pc = "stepped", ![r].wrote = TRUE]
    /\ UNCHANGED <<clock, deploymentStatus, responses, notifications, healthVars, metricsVars, schedulerVars, sweepVars, rolloutVars>>

\* The next stage is entered: its 'running' entry is appended.
NextStage(r) ==
    /\ runs[r].pc = "stepped"
    /\ runs[r].stage < NumStages
    /\ Schedule(r)
    /\ jobs' = updateDeploymentStep(jobs, deploymentStatus, runs[r].id,
                                    Stages[runs[r].stage + 1], "running", clock)
    /\ runs' = [runs EXCEPT ![r].pc = "exec", ![r].stage = @ + 1]
    /\ UNCHANGED <<clock, deploymentStatus, responses, notifications, healthVars, metricsVars, schedulerVars, sweepVars, rolloutVars>>

\* The awaited stage operation rejects: the catch block runs.  Environment
\* Setup rejects before its fs.writeFile when a required variable is missing,
\* and otherwise in it.
StageRaises(r) ==
    /\ runs[r].pc = "exec"
    /\ Schedule(r)
    /\ jobs' = MarkFailed(jobs, deploymentStatus, runs[r].id,
                          IF runs[r].stage = 1 THEN SetupError(runs[r].present)
                          ELSE "stage error", clock)
    /\ notifications' = Notify(runs[r].id, "failed")
    /\ runs' = [runs EXCEPT ![r].pc = "end", ![r].raisedAt = runs[r].stage,
                             ![r].wrote = @ \/ (runs[r].stage = 1 /\ runs[r].configComplete),
                             ![r].failedJob = deploymentStatus[runs[r].id]]
    /\ UNCHANGED <<clock, deploymentStatus, responses, healthVars, metricsVars, schedulerVars, sweepVars, rolloutVars>>

\* After the last 'completed' entry: the job is marked completed and the
\* success notification is called in the same turn, still inside the try.
Complete(r) ==
    /\ runs[r].pc = "stepped"
    /\ runs[r].stage = NumStages
    /\ Schedule(r)
    /\ jobs' = MarkCompleted(jobs, runs[r].dep, clock)
    /\ IF NotificationRaises(jobs', deploymentStatus, runs[r].id, "success")
       THEN /\ runs' = [runs EXCEPT ![r].pc = "caught"]
            /\ UNCHANGED notifications
       ELSE /\ runs' = [runs EXCEPT ![r].pc = "end"]
            /\ notifications' = Notify(runs[r].id, "success")
    /\ UNCHANGED <<clock, deploymentStatus, responses, healthVars, metricsVars, schedulerVars, sweepVars, rolloutVars>>

\* The catch block entered because the success notification threw.
CatchNotification(r) ==
    /\ runs[r].pc = "caught"
    /\ Schedule(r)
    /\ jobs' = MarkFailed(jobs, deploymentStatus, runs[r].id, "notification error", clock)
    /\ notifications' = Notify(runs[r].id, "failed")
    /\ runs' = [runs EXCEPT ![r].pc = "end", ![r].failedJob = deploymentStatus[runs[r].id]]
    /\ UNCHANGED <<clock, deploymentStatus, responses, healthVars, metricsVars, schedulerVars, sweepVars, rolloutVars>>

\* A millisecond passes.
Tick(max) ==
    /\ clock < max
    /\ clock' = clock + 1

DeployTick ==
    /\ Tick(MaxDeployClock)
    /\ UNCHANGED <<deployVars, healthVars, metricsVars, schedulerVars, sweepVars, rolloutVars>>

(***************************************************************************)
(* Health monitoring and alerting.                                         *)
(***************************************************************************)
\* Comprehensive checks started in one behaviour.
MaxChecks == 2

\* The keys of the object checkServicesHealth builds, in insertion order.
Services ==
    << "database", "voice_engine", "email_system", "payment_system",
       "whatsapp_api", "knowledge_base", "legal_services" >>

\* The roster checkAgentsHealth iterates.
AgentIds ==
    << "lexi-pro", "atlas-corporate", "miss-legal", "paymaster",
       "crossai-emergency", "miss-academic", "tech-support",
       "luxury-service", "med-assist", "edu-kids", "gov-connect" >>

\* alertThresholds as set by initializeMonitoring (critical bounds).
ResponseTimeCritical == 5000

ResponseTimeWarning == 2000

CpuUsageCritical == 85

MemoryUsageCritical == 90

DiskUsageCritical == 95

\* response_time of a probe that threw (null in the code).
Null == 0 - 1

\* The comparison taken as "at least": a value equal to the bound passes.
JsGreaterOrEqual(x, y) == x # Null /\ x >= y

\* x > y as JavaScript evaluates it when x may be null: null > y is false for y >= 0.
JsGreater(x, y) == x # Null /\ x > y

\* Probe outcomes the checks are run on: how many services and how many agents
\* answer unhealthy, the latency of the last agent and the readings of the
\* system metric provider (percentages).
ServiceDownCounts == {0, 1, 3}

AgentDownCounts == {0, 1, 4}

ResponseTimes == {100, 6000}

InfrastructureReadings ==
    { [cpu_usage |-> 50, memory_usage |-> 50, disk_usage |-> 50],
      [cpu_usage |-> 90, memory_usage |-> 50, disk_usage |-> 50],
      [cpu_usage |-> 50, memory_usage |-> 95, disk_usage |-> 99] }

\* checkDatabaseHealth: its try block cannot throw, so the answer is healthy.
checkDatabaseHealth == "healthy"

\* The probes of the other six services (checkVoiceEngineHealth, ...) are not
\* part of the source: each is a HealthProbe(target) -> ProbeResult with status
\* healthy or unhealthy.
RemoteServiceProbe(isDown) == IF isDown THEN "unhealthy" ELSE "healthy"

\* checkServicesHealth: the database first, then the six remote probes, of
\* which the first `down` answer unhealthy.
ServiceProbes(down) ==
    [i \in 1..Len(Services) |->
        [name   |-> Services[i],
         status |-> IF i = 1 THEN checkDatabaseHealth
                    ELSE RemoteServiceProbe(i <= down + 1)]]

\* checkAgentHealth: a probe that throws gives unhealthy with response_time null
\* (the first `down` agents); the others answer healthy, the last one after `ms`.
AgentProbes(down, ms) ==
    [i \in 1..Len(AgentIds) |->
        [name          |-> AgentIds[i],
         status        |-> IF i <= down THEN "unhealthy" ELSE "healthy",
         response_time |-> IF i <= down THEN Null
                           ELSE IF i = Len(AgentIds) THEN ms ELSE 100]]

\* Object.values(x).filter(s => s.status === 'unhealthy').length
Unhealthy(probes) ==
    Cardinality({i \in DOMAIN probes : probes[i].status = "unhealthy"})

\* alerts.filter(a => a.severity === 'critical').length
CriticalAlerts(alerts) ==
    Cardinality({i \in DOMAIN alerts : alerts[i].severity = "critical"})

\* The service bound of the first rule off by one: more than 3 instead of
\* more than 2 unhealthy services.
evaluateOverallHealthLate(healthResults) ==
    LET unhealthyServices == Unhealthy(healthResults.services)
        unhealthyAgents   == Unhealthy(healthResults.agents)
        criticalAlerts    == CriticalAlerts(healthResults.alerts)
    IN IF criticalAlerts > 0 \/ unhealthyServices > 3 THEN "critical"
       ELSE IF unhealthyServices > 0 \/ unhealthyAgents > 3 THEN "degraded"
       ELSE IF unhealthyAgents > 0 THEN "warning"
       ELSE "healthy"

\* evaluateOverallHealth, on the healthResults object as it is when called.
evaluateOverallHealth(healthResults) ==
    LET unhealthyServices == Unhealthy(healthResults.services)
        unhealthyAgents   == Unhealthy(healthResults.agents)
        criticalAlerts    == CriticalAlerts(healthResults.alerts)
    IN IF criticalAlerts > 0 \/ unhealthyServices > 2 THEN "critical"
       ELSE IF unhealthyServices > 0 \/ unhealthyAgents > 3 THEN "degraded"
       ELSE IF unhealthyAgents > 0 THEN "warning"
       ELSE "healthy"

\* The score without its floor: Math.max(0, score) left out.
calculateHealthScoreUnfloored(lastHealthCheck) ==
    IF lastHealthCheck = << >> THEN 0
    ELSE LET healthCheck == lastHealthCheck[1]
         IN 100 - Unhealthy(healthCheck.services) * 10
                - Unhealthy(healthCheck.agents) * 5
                - CriticalAlerts(healthCheck.alerts) * 15

\* Math.max(0, score)
Max0(score) == IF score > 0 THEN score ELSE 0

\* calculateHealthScore; its argument is systemHealth.get('last_health_check'),
\* undefined (the empty sequence here) until a check has stored a result.
calculateHealthScore(lastHealthCheck) ==
    IF lastHealthCheck = << >> THEN 0
    ELSE LET healthCheck == lastHealthCheck[1]
         IN Max0(100 - Unhealthy(healthCheck.services) * 10
                     - Unhealthy(healthCheck.agents) * 5
                     - CriticalAlerts(healthCheck.alerts) * 15)

\* The alerts of the services raised with severity high instead of critical.
ServiceAlertsHigh(probes) ==
    LET IsDown(probe) == probe.status = "unhealthy"
        down == SelectSeq(probes, IsDown)
    IN [i \in 1..Len(down) |->
            [type |-> "service_down", severity |-> "high", subject |-> down[i].name]]

\* checkForAlerts: the alerts of the services, then per agent agent_down and
\* performance_degradation, then the CPU alert.
RECURSIVE ServiceAlerts(_)
ServiceAlerts(probes) ==
    IF probes = << >> THEN << >>
    ELSE (IF Head(probes).status = "unhealthy"
          THEN << [type |-> "service_down", severity |-> "critical",
                   subject |-> Head(probes).name] >>
          ELSE << >>) \o ServiceAlerts(Tail(probes))

RECURSIVE AgentAlerts(_)
AgentAlerts(probes) ==
    IF probes = << >> THEN << >>
    ELSE (IF Head(probes).status = "unhealthy"
          THEN << [type |-> "agent_down", severity |-> "high",
                   subject |-> Head(probes).name] >>
          ELSE << >>)
         \o (IF JsGreater(Head(probes).response_time, ResponseTimeCritical)
             THEN << [type |-> "performance_degradation", severity |-> "high",
                      subject |-> Head(probes).name] >>
             ELSE << >>)
         \o AgentAlerts(Tail(probes))

InfrastructureAlerts(infra) ==
    IF JsGreater(infra.cpu_usage, CpuUsageCritical)
    THEN << [type |-> "resource_critical", severity |-> "critical", subject |-> "cpu"] >>
    ELSE << >>

\* checkForAlerts without its loop over the agents.
checkForAlertsServicesOnly(healthResults) ==
    ServiceAlerts(healthResults.services)
        \o InfrastructureAlerts(healthResults.infrastructure)

checkForAlerts(healthResults) ==
    ServiceAlerts(healthResults.services)
        \o AgentAlerts(healthResults.agents)
        \o InfrastructureAlerts(healthResults.infrastructure)

\* checkInfrastructureHealth is not part of the source: the snapshot of the
\* external metric provider (CPU, memory, disk), of which checkForAlerts reads
\* cpu_usage only.
InfrastructureSnapshot(reading) ==
    [ cpu_usage    |-> reading.cpu_usage,
      memory_usage |-> reading.memory_usage,
      disk_usage   |-> reading.disk_usage ]

\* The healthResults object performHealthChecks starts from.
NewHealthResults(now) ==
    [ timestamp      |-> now,
      overall_status |-> "healthy",
      services       |-> << >>,
      agents         |-> << >>,
      infrastructure |-> [cpu_usage |-> Null, memory_usage |-> Null, disk_usage |-> Null],
      alerts         |-> << >>,
      error          |-> "none" ]

\* The channel calls sendHealthAlerts makes for a list of alerts, in order:
\* the email for every alert, then the WhatsApp message when it is critical.
RECURSIVE ChannelCalls(_, _)
ChannelCalls(alerts, i) ==
    IF i > Len(alerts) THEN << >>
    ELSE << [alert |-> i, channel |-> "email"] >>
         \o (IF alerts[i].severity = "critical"
             THEN << [alert |-> i, channel |-> "whatsapp"] >>
             ELSE << >>)
         \o ChannelCalls(alerts, i + 1)

\* sendHealthAlerts without its WhatsApp branch: only the emails are sent.
DeliveredPrimaryOnly(alerts, failedCall) ==
    LET IsEmail(call) == call.channel = "email"
    IN SelectSeq(ChannelCalls(alerts, 1), IsEmail)

\* sendHealthAlerts: one try around the whole loop, so the calls delivered are
\* those before the first failing call (failedCall = 0: no call fails).
Delivered(alerts, failedCall) ==
    LET calls == ChannelCalls(alerts, 1)
    IN IF failedCall = 0 THEN calls ELSE SubSeq(calls, 1, failedCall - 1)

\* A tick of the comprehensive check: performHealthChecks starts.
StartHealthCheck ==
    /\ "comprehensive" \in scheduled
    /\ Len(checks) < MaxChecks
    /\ checks' = Append(checks,
            [pc |-> "services", healthResults |-> NewHealthResults(clock),
             sent |-> << >>, failedCall |-> 0])
    /\ UNCHANGED <<clock, systemHealth, deployVars, metricsVars, schedulerVars, sweepVars, rolloutVars>>

\* await this.checkServicesHealth() resolves.
ServicesChecked(k, down) ==
    /\ checks[k].pc = "services"
    /\ checks' = [checks EXCEPT ![k].pc = "agents",
                                ![k].healthResults.services = ServiceProbes(down)]
    /\ UNCHANGED <<clock, systemHealth, deployVars, metricsVars, schedulerVars, sweepVars, rolloutVars>>

\* await this.checkAgentsHealth() resolves.
AgentsChecked(k, down, ms) ==
    /\ checks[k].pc = "agents"
    /\ checks' = [checks EXCEPT ![k].pc = "infrastructure",
                                ![k].healthResults.agents = AgentProbes(down, ms)]
    /\ UNCHANGED <<clock, systemHealth, deployVars, metricsVars, schedulerVars, sweepVars, rolloutVars>>

\* await this.checkInfrastructureHealth() resolves; the same turn evaluates the
\* overall status and then runs checkForAlerts up to the await on its result.
InfrastructureChecked(k, reading) ==
    /\ checks[k].pc = "infrastructure"
    /\ LET measured  == [checks[k].healthResults EXCEPT
                                !.infrastructure = InfrastructureSnapshot(reading)]
           evaluated == [measured EXCEPT !.overall_status = evaluateOverallHealth(measured)]
       IN checks' = [checks EXCEPT ![k].pc = "evaluated",
                                   ![k].healthResults =
                                        [evaluated EXCEPT !.alerts = checkForAlerts(evaluated)]]
    /\ UNCHANGED <<clock, systemHealth, deployVars, metricsVars, schedulerVars, sweepVars, rolloutVars>>

\* One of the remote service probes rejects: checkServicesHealth rejects and
\* the catch block of performHealthChecks runs.
ServicesRaise(k) ==
    /\ checks[k].pc = "services"
    /\ checks' = [checks EXCEPT ![k].pc = "failed",
                                ![k].healthResults.overall_status = "unhealthy",
                                ![k].healthResults.error = "service probe error"]
    /\ UNCHANGED <<clock, systemHealth, deployVars, metricsVars, schedulerVars, sweepVars, rolloutVars>>

\* The catch block publishing the object it has marked unhealthy as the last
\* result.
InfrastructureRaisesPublishing(k) ==
    /\ checks[k].pc = "infrastructure"
    /\ checks' = [checks EXCEPT ![k].pc = "failed",
                                ![k].healthResults.overall_status = "unhealthy",
                                ![k].healthResults.error = "infrastructure error"]
    /\ systemHealth' = [systemHealth EXCEPT
            !.last_health_check =
                << [checks[k].healthResults EXCEPT !.overall_status = "unhealthy",
                                                   !.error = "infrastructure error"] >>]
    /\ UNCHANGED <<clock, deployVars, metricsVars, schedulerVars, sweepVars, rolloutVars>>

\* The catch block writing its status to the shared map as well.
InfrastructureRaisesStoring(k) ==
    /\ checks[k].pc = "infrastructure"
    /\ checks' = [checks EXCEPT ![k].pc = "failed",
                                ![k].healthResults.overall_status = "unhealthy",
                                ![k].healthResults.error = "infrastructure error"]
    /\ systemHealth' = [systemHealth EXCEPT !.overall_status = "unhealthy"]
    /\ UNCHANGED <<clock, deployVars, metricsVars, schedulerVars, sweepVars, rolloutVars>>

\* checkInfrastructureHealth rejects: the catch block changes the local object only.
InfrastructureRaises(k) ==
    /\ checks[k].pc = "infrastructure"
    /\ checks' = [checks EXCEPT ![k].pc = "failed",
                                ![k].healthResults.overall_status = "unhealthy",
                                ![k].healthResults.error = "infrastructure error"]
    /\ UNCHANGED <<clock, systemHealth, deployVars, metricsVars, schedulerVars, sweepVars, rolloutVars>>

\* Only the first of the two systemHealth.set calls made in this turn: the
\* overall status is left for a later turn.
StoreResultOnly(k) ==
    /\ checks[k].pc = "evaluated"
    /\ systemHealth' = [systemHealth EXCEPT
            !.last_health_check = << checks[k].healthResults >>]
    /\ checks' = [checks EXCEPT ![k].pc =
            IF Len(checks[k].healthResults.alerts) > 0 THEN "dispatch" ELSE "done"]
    /\ UNCHANGED <<clock, deployVars, metricsVars, schedulerVars, sweepVars, rolloutVars>>

\* The two systemHealth.set calls, then sendHealthAlerts is entered if needed.
StoreResult(k) ==
    /\ checks[k].pc = "evaluated"
    /\ systemHealth' = [systemHealth EXCEPT
            !.last_health_check = << checks[k].healthResults >>,
            !.overall_status = checks[k].healthResults.overall_status]
    /\ checks' = [checks EXCEPT ![k].pc =
            IF Len(checks[k].healthResults.alerts) > 0 THEN "dispatch" ELSE "done"]
    /\ UNCHANGED <<clock, deployVars, metricsVars, schedulerVars, sweepVars, rolloutVars>>

\* sendHealthAlerts runs to its end; failedCall is the first channel call that
\* fails, if any.
SendHealthAlerts(k, failedCall) ==
    /\ checks[k].pc = "dispatch"
    /\ failedCall \in 0..Len(ChannelCalls(checks[k].healthResults.alerts, 1))
    /\ checks' = [checks EXCEPT ![k].pc = "done",
                                ![k].failedCall = failedCall,
                                ![k].sent = Delivered(checks[k].healthResults.alerts, failedCall)]
    /\ UNCHANGED <<clock, systemHealth, deployVars, metricsVars, schedulerVars, sweepVars, rolloutVars>>

\* GET /api/health/system: the body of the response, read from systemHealth
\* as it is at the moment of the request.  The handler changes no state.
getSystemHealth ==
    [ overall_status   |-> systemHealth.overall_status,
      services_running |-> IF systemHealth.last_health_check = << >> THEN 0
                           ELSE Len(systemHealth.last_health_check[1].services),
      health_score     |-> calculateHealthScore(systemHealth.last_health_check) ]

(***************************************************************************)
(* The metrics store.                                                      *)
(***************************************************************************)
\* The capacity of monitoringMetrics.  The code keeps the last 1000 entries
\* (collectPerformanceMetrics: size > 1000); the store is explored with a small
\* capacity, the eviction code being the same for every capacity.
MetricsCapacity == 3

\* Metrics collections started in one behaviour.
MaxCollections == 4

\* The last millisecond the metrics clock reaches.
MaxMetricsClock == 4

\* Math.min(...this.monitoringMetrics.keys())
OldestKey(store) == CHOOSE k \in DOMAIN store : \A j \in DOMAIN store : k <= j

\* this.monitoringMetrics.set(key, metrics)
MapSet(store, key, sample) ==
    [k \in DOMAIN store \cup {key} |-> IF k = key THEN sample ELSE store[k]]

\* this.monitoringMetrics.delete(key)
MapDelete(store, key) == [k \in DOMAIN store \ {key} |-> store[k]]

\* The size test off by one: the store is trimmed one entry too late.
OverCapacityLate(store) == Cardinality(DOMAIN store) > MetricsCapacity + 1

\* if (this.monitoringMetrics.size > 1000)
OverCapacity(store) == Cardinality(DOMAIN store) > MetricsCapacity

\* The store after the second half of collectPerformanceMetrics.
Record(store, key, sample) ==
    LET added == MapSet(store, key, sample)
    IN IF OverCapacity(added) THEN MapDelete(added, OldestKey(added)) ELSE added

\* A tick of the metrics task: the sample is stamped, the readings are awaited.
StartCollection ==
    /\ "metrics" \in scheduled
    /\ Len(collections) < MaxCollections
    /\ collections' = Append(collections, [pc |-> "reading", timestamp |-> clock])
    /\ UNCHANGED <<clock, monitoringMetrics, dropped, deployVars, healthVars, schedulerVars, sweepVars, rolloutVars>>

\* The readings are in: the sample is stored under Date.now() and the store trimmed.
StoreMetrics(c) ==
    /\ collections[c].pc = "reading"
    /\ LET sample == [timestamp |-> collections[c].timestamp, collection |-> c]
           after  == Record(monitoringMetrics, clock, sample)
           before == {monitoringMetrics[k] : k \in DOMAIN monitoringMetrics} \cup {sample}
           gone   == before \ {after[k] : k \in DOMAIN after}
       IN /\ monitoringMetrics' = after
          /\ dropped' = dropped \cup
                {[timestamp |-> g.timestamp, collection |-> g.collection,
                  evicted   |-> OverCapacity(MapSet(monitoringMetrics, clock, sample))] : g \in gone}
    /\ collections' = [collections EXCEPT ![c].pc = "stored"]
    /\ UNCHANGED <<clock, deployVars, healthVars, schedulerVars, sweepVars, rolloutVars>>

MetricsTick ==
    /\ Tick(MaxMetricsClock)
    /\ UNCHANGED <<deployVars, healthVars, metricsVars, schedulerVars, sweepVars, rolloutVars>>

(***************************************************************************)
(* The scheduler: the three periodic tasks of startHealthChecks.           *)
(***************************************************************************)
\* The cron.schedule registrations: every 5 minutes, 30 seconds, 1 minute.
Tasks == {"comprehensive", "ping", "metrics"}

\* Ping sweeps started in one behaviour.
MaxPings == 2

\* An error thrown out of a task's run leaves the registrations as they are.
\* This variant lets it cancel the task whose run raised.
CallbackUnschedules(task) == scheduled \ {task}

\* try { await this.<task>() } catch (error) { console.error(...) }: the
\* callback logs the error; no registration is stopped.
CallbackCatches(task) == scheduled

\* A tick of the ping task: performQuickHealthChecks is called.  The method is
\* not part of the source; a run of it ends or raises.
PingTick ==
    /\ "ping" \in scheduled
    /\ Len(pings) < MaxPings
    /\ pings' = Append(pings, "running")
    /\ UNCHANGED <<clock, scheduled, deployVars, healthVars, metricsVars, sweepVars, rolloutVars>>

PingReturns(p) ==
    /\ pings[p] = "running"
    /\ pings' = [pings EXCEPT ![p] = "done"]
    /\ UNCHANGED <<clock, scheduled, deployVars, healthVars, metricsVars, sweepVars, rolloutVars>>

\* The run raises: the callback's catch block runs.
PingRaises(p) ==
    /\ pings[p] = "running"
    /\ pings' = [pings EXCEPT ![p] = "caught"]
    /\ scheduled' = CallbackCatches("ping")
    /\ UNCHANGED <<clock, deployVars, healthVars, metricsVars, sweepVars, rolloutVars>>

\* One of the awaited readings of collectPerformanceMetrics rejects: nothing
\* is stored and the callback's catch block runs.
CollectionRaises(c) ==
    /\ collections[c].pc = "reading"
    /\ collections' = [collections EXCEPT ![c].pc = "caught"]
    /\ scheduled' = CallbackCatches("metrics")
    /\ UNCHANGED <<clock, monitoringMetrics, dropped, pings, deployVars, healthVars, sweepVars, rolloutVars>>

(***************************************************************************)
(* One comprehensive check's probing, probe by probe: checkServicesHealth  *)
(* awaits its seven probes one after the other, then checkAgentsHealth     *)
(* awaits checkAgentHealth for each agent of the roster in a for loop.     *)
(***************************************************************************)
\* Probes of one sweep that do not answer healthy.
MaxProbeFailures == 2

NumTargets == Len(Services) + Len(AgentIds)

\* What the probe of target i can do: the database check is a mock that
\* answers healthy; a remote service probe answers healthy or unhealthy; the
\* fetch of an agent answers ok, answers not ok, or throws (timeout included).
ProbeOutcomes(i) ==
    IF i = 1 THEN {"ok"}
    ELSE IF i <= Len(Services) THEN {"ok", "not_ok"}
    ELSE {"ok", "not_ok", "throws"}

\* checkAgentHealth: the entry it returns for the outcome of its fetch.
checkAgentHealth(agentId, outcome, ms) ==
    IF outcome = "throws"
    THEN [name |-> agentId, status |-> "unhealthy", response_time |-> Null]
    ELSE [name          |-> agentId,
          status        |-> IF outcome = "ok" THEN "healthy" ELSE "unhealthy",
          response_time |-> ms]

\* The entry of a service probe.
ServiceEntry(i, outcome) ==
    [name   |-> Services[i],
     status |-> IF i = 1 THEN checkDatabaseHealth ELSE RemoteServiceProbe(outcome # "ok")]

\* A throw of the fetch escaping checkAgentHealth would reject checkAgentsHealth
\* and end the sweep in performHealthChecks's catch block.
SweepAfterUncaught(i, outcome) ==
    IF outcome = "throws" THEN "failed"
    ELSE IF i < NumTargets THEN "probing" ELSE "done"

\* Where the sweep stands after the probe of target i has settled: the fetch's
\* error is caught inside checkAgentHealth, so the loop goes on to the next
\* target, or returns after the last one.
SweepAfter(i, outcome) == IF i < NumTargets THEN "probing" ELSE "done"

NewSweep ==
    [pc |-> "idle", started |-> 0, outcomes |-> << >>, services |-> << >>, agents |-> << >>]

Failures(outcomes) == Cardinality({j \in DOMAIN outcomes : outcomes[j] # "ok"})

\* performHealthChecks calls checkServicesHealth, which starts its first probe.
SweepStart ==
    /\ sweep.pc = "idle"
    /\ sweep' = [sweep EXCEPT !.pc = "probing", !.started = 1]
    /\ UNCHANGED <<clock, deployVars, healthVars, metricsVars, schedulerVars, rolloutVars>>

\* The probe in flight settles; the same turn stores its entry and, when a
\* target is left, evaluates the next await expression, which starts its probe.
ProbeSettles(outcome) ==
    /\ sweep.pc = "probing"
    /\ LET i == Len(sweep.outcomes) + 1
       IN /\ outcome \in ProbeOutcomes(i)
          /\ outcome # "ok" => Failures(sweep.outcomes) < MaxProbeFailures
          /\ sweep' = [sweep EXCEPT
                !.pc       = SweepAfter(i, outcome),
                !.started  = IF SweepAfter(i, outcome) = "probing" THEN i + 1 ELSE i,
                !.outcomes = Append(@, outcome),
                !.services = IF i <= Len(Services)
                             THEN Append(@, ServiceEntry(i, outcome)) ELSE @,
                !.agents   = IF i > Len(Services)
                             THEN Append(@, checkAgentHealth(AgentIds[i - Len(Services)],
                                                            outcome, 100))
                             ELSE @]
    /\ UNCHANGED <<clock, deployVars, healthVars, metricsVars, schedulerVars, rolloutVars>>

(***************************************************************************)
(* The AI Agents stage of one pipeline, sub-step by sub-step:              *)
(* deployAllAgents awaits deployAgent for each agent of its roster, and    *)
(* deployAgent awaits its five operations one after the other.             *)
(***************************************************************************)
\* The operations deployAgent awaits, in the order of its statements.
SubSteps ==
    << "loadAgentConfig", "deployAgentService", "configureAgentEndpoints",
       "testAgentDeployment", "updateAgentStatus" >>

NewRollout ==
    [pc |-> "idle", agent |-> 0, substep |-> 0, started |-> << >>,
     completed |-> FALSE, error |-> "none"]

\* The call of a sub-step, noted in the order the calls are made.
StartSubStep(r, agent, substep) ==
    [r EXCEPT !.agent = agent, !.substep = substep,
              !.started = Append(@, [agent |-> AgentIds[agent], substep |-> SubSteps[substep]])]

\* The stage is entered: deployAllAgents calls deployAgent for the first agent
\* of the roster, which calls loadAgentConfig.
RolloutStart ==
    /\ rollout.pc = "idle"
    /\ rollout' = [StartSubStep(rollout, 1, 1) EXCEPT !.pc = "agents"]
    /\ UNCHANGED <<clock, deployVars, healthVars, metricsVars, schedulerVars, sweepVars>>

\* The awaited operation resolves: the next operation of the agent is called,
\* or deployAgent of the next agent, or deployAllAgents returns and the stage's
\* 'completed' entry is appended.
SubStepReturns ==
    /\ rollout.pc = "agents"
    /\ rollout' =
            IF rollout.substep < Len(SubSteps)
            THEN StartSubStep(rollout, rollout.agent, rollout.substep + 1)
            ELSE IF rollout.agent < Len(AgentIds)
            THEN StartSubStep(rollout, rollout.agent + 1, 1)
            ELSE [rollout EXCEPT !.pc = "returned", !.completed = TRUE]
    /\ UNCHANGED <<clock, deployVars, healthVars, metricsVars, schedulerVars, sweepVars>>

\* The awaited operation rejects: deployAgent's catch rethrows, the loop of
\* deployAllAgents ends, and executeFullDeployment goes to its catch block.
SubStepRaises ==
    /\ rollout.pc = "agents"
    /\ rollout' = [rollout EXCEPT !.pc = "raised", !.error = "Failed to deploy agent"]
    /\ UNCHANGED <<clock, deployVars, healthVars, metricsVars, schedulerVars, sweepVars>>

Init ==
    /\ clock = 0
    /\ jobs = << >>
    /\ deploymentStatus = << >>
    /\ runs = << >>
    /\ responses = << >>
    /\ notifications = << >>
    /\ lastRun = 0
    /\ switches = 0
    /\ systemHealth = [overall_status |-> "healthy", last_health_check |-> << >>]
    /\ checks = << >>
    /\ monitoringMetrics = << >>
    /\ collections = << >>
    /\ dropped = {}
    /\ scheduled = Tasks
    /\ pings = << >>
    /\ sweep = NewSweep
    /\ rollout = NewRollout

Next ==
    \/ DeployTick
    \/ \E present \in PresentKeys : DeployFullSystem(present)
    \/ \E r \in DOMAIN runs : StageReturns(r)
    \/ \E r \in DOMAIN runs : NextStage(r)
    \/ \E r \in DOMAIN runs : StageRaises(r)
    \/ \E r \in DOMAIN runs : Complete(r)
    \/ \E r \in DOMAIN runs : CatchNotification(r)

Spec == Init /\ [][Next]_vars

\* A step of the pipeline run r: a stage operation settles, or the code after
\* an await that has resolved goes on.
RunStep(r) ==
    /\ r \in DOMAIN runs
    /\ \/ StageReturns(r)
       \/ NextStage(r)
       \/ StageRaises(r)
       \/ Complete(r)
       \/ CatchNotification(r)

\* Every stage operation eventually returns or raises, and the event loop
\* runs the continuation of a settled await.
SpecLive == Spec /\ \A r \in 1..MaxRequests : WF_vars(RunStep(r))

NextHealth ==
    \/ StartHealthCheck
    \/ \E k \in DOMAIN checks, down \in ServiceDownCounts : ServicesChecked(k, down)
    \/ \E k \in DOMAIN checks, down \in AgentDownCounts, ms \in ResponseTimes :
            AgentsChecked(k, down, ms)
    \/ \E k \in DOMAIN checks, reading \in InfrastructureReadings :
            InfrastructureChecked(k, reading)
    \/ \E k \in DOMAIN checks : ServicesRaise(k)
    \/ \E k \in DOMAIN checks : InfrastructureRaises(k)
    \/ \E k \in DOMAIN checks : StoreResult(k)
    \/ \E k \in DOMAIN checks, failedCall \in 0..(2 * (Len(Services) + 2 * Len(AgentIds) + 1)) :
            SendHealthAlerts(k, failedCall)

SpecHealth == Init /\ [][NextHealth]_vars

NextMetrics ==
    \/ MetricsTick
    \/ StartCollection
    \/ \E c \in DOMAIN collections : StoreMetrics(c)
    \/ \E c \in DOMAIN collections : CollectionRaises(c)

SpecMetrics == Init /\ [][NextMetrics]_vars

\* The three tasks side by side; every probe of the comprehensive check
\* answers healthy, the readings are normal.
NextScheduler ==
    \/ StartHealthCheck
    \/ \E k \in DOMAIN checks : ServicesChecked(k, 0)
    \/ \E k \in DOMAIN checks : AgentsChecked(k, 0, 100)
    \/ \E k \in DOMAIN checks :
            InfrastructureChecked(k, [cpu_usage |-> 50, memory_usage |-> 50, disk_usage |-> 50])
    \/ \E k \in DOMAIN checks : InfrastructureRaises(k)
    \/ \E k \in DOMAIN checks : StoreResult(k)
    \/ PingTick
    \/ \E p \in DOMAIN pings : PingReturns(p)
    \/ \E p \in DOMAIN pings : PingRaises(p)
    \/ StartCollection
    \/ \E c \in DOMAIN collections : StoreMetrics(c)
    \/ \E c \in DOMAIN collections : CollectionRaises(c)

SpecScheduler == Init /\ [][NextScheduler]_vars

NextSweep ==
    \/ SweepStart
    \/ \E outcome \in {"ok", "not_ok", "throws"} : ProbeSettles(outcome)

SpecSweep == Init /\ [][NextSweep]_vars

NextRollout ==
    \/ RolloutStart
    \/ SubStepReturns
    \/ SubStepRaises

SpecRollout == Init /\ [][NextRollout]_vars

(***************************************************************************)
(* evaluateOverallHealth and calculateHealthScore on arbitrary results:    *)
(* s unhealthy services, a unhealthy agents and c critical alerts, chosen  *)
(* independently of each other.                                            *)
(***************************************************************************)
\* The largest number of critical alerts a given result carries.
MaxGivenCriticals == 2

GivenCounts ==
    [s : 0..(Len(Services) - 1), a : 0..Len(AgentIds), c : 0..MaxGivenCriticals]

\* A result with the given counts; its alerts are c critical ones and a high one.
GivenResult(given) ==
    [NewHealthResults(0) EXCEPT
        !.services = ServiceProbes(given.s),
        !.agents   = AgentProbes(given.a, 100),
        !.alerts   = [i \in 1..(given.c + 1) |->
                        IF i <= given.c
                        THEN [type |-> "resource_critical", severity |-> "critical",
                              subject |-> "cpu"]
                        ELSE [type |-> "performance_degradation", severity |-> "high",
                              subject |-> AgentIds[Len(AgentIds)]]]]

InitEvaluate ==
    /\ clock = 0
    /\ jobs = << >>
    /\ deploymentStatus = << >>
    /\ runs = << >>
    /\ responses = << >>
    /\ notifications = << >>
    /\ lastRun = 0
    /\ switches = 0
    /\ systemHealth = [overall_status |-> "healthy", last_health_check |-> << >>]
    /\ \E given \in GivenCounts :
            checks = << [pc |-> "given", healthResults |-> GivenResult(given),
                         sent |-> << >>, failedCall |-> 0, given |-> given] >>
    /\ monitoringMetrics = << >>
    /\ collections = << >>
    /\ dropped = {}
    /\ scheduled = Tasks
    /\ pings = << >>
    /\ sweep = NewSweep
    /\ rollout = NewRollout

\* healthResults.overall_status = this.evaluateOverallHealth(healthResults)
EvaluateGiven(k) ==
    /\ checks[k].pc = "given"
    /\ checks' = [checks EXCEPT ![k].pc = "evaluated",
                                ![k].healthResults.overall_status =
                                    evaluateOverallHealth(checks[k].healthResults)]
    /\ UNCHANGED <<clock, systemHealth, deployVars, metricsVars, schedulerVars, sweepVars, rolloutVars>>

\* The result is evaluated, then stored; GET /api/health/system scores it.
NextEvaluate ==
    \/ \E k \in DOMAIN checks : EvaluateGiven(k)
    \/ \E k \in DOMAIN checks : StoreResult(k)

SpecEvaluate == InitEvaluate /\ [][NextEvaluate]_vars

(***************************************************************************)
(* Comprehensive checks over time: a tick of the task may find the run of  *)
(* the tick before it still awaiting its probes.                           *)
(***************************************************************************)
\* The last millisecond the clock of the health checks reaches.
MaxHealthClock == 2

HealthTick ==
    /\ Tick(MaxHealthClock)
    /\ UNCHANGED <<deployVars, healthVars, metricsVars, schedulerVars, sweepVars, rolloutVars>>

\* The checks with time passing; the agents answer healthy, a service may be
\* down, and no channel call fails.
NextOverlap ==
    \/ HealthTick
    \/ StartHealthCheck
    \/ \E k \in DOMAIN checks, down \in {0, 1} : ServicesChecked(k, down)
    \/ \E k \in DOMAIN checks : AgentsChecked(k, 0, 100)
    \/ \E k \in DOMAIN checks, reading \in InfrastructureReadings :
            InfrastructureChecked(k, reading)
    \/ \E k \in DOMAIN checks : InfrastructureRaises(k)
    \/ \E k \in DOMAIN checks : StoreResult(k)
    \/ \E k \in DOMAIN checks : SendHealthAlerts(k, 0)

SpecOverlap == Init /\ [][NextOverlap]_vars

(***************************************************************************)
(* checkForAlerts and the score on the results of arbitrary probes: any    *)
(* number of services down, agents whose fetch threw, and an agent that    *)
(* answered, ok or not, after a latency around the response-time bounds.   *)
(***************************************************************************)
\* Latencies of the agent that answers, in ms: below the warning bound, at
\* it, between the bounds, at the critical bound and above it.
Latencies == {100, ResponseTimeWarning, 3000, ResponseTimeCritical, 5001}

\* The first `down` agents threw, the last agent answered `outcome` after ms,
\* the others answered ok.
ProbedAgents(down, outcome, ms) ==
    [i \in 1..Len(AgentIds) |->
        IF i <= down THEN checkAgentHealth(AgentIds[i], "throws", Null)
        ELSE IF i = Len(AgentIds) THEN checkAgentHealth(AgentIds[i], outcome, ms)
        ELSE checkAgentHealth(AgentIds[i], "ok", 100)]

\* A check whose probes have answered and whose infrastructure snapshot is awaited.
InitProbed ==
    /\ clock = 0
    /\ jobs = << >>
    /\ deploymentStatus = << >>
    /\ runs = << >>
    /\ responses = << >>
    /\ notifications = << >>
    /\ lastRun = 0
    /\ switches = 0
    /\ systemHealth = [overall_status |-> "healthy", last_health_check |-> << >>]
    /\ \E s \in 0..(Len(Services) - 1), a \in {0, 1, 4, Len(AgentIds) - 1},
          outcome \in {"ok", "not_ok"}, ms \in Latencies :
            checks = << [pc |-> "infrastructure",
                         healthResults |->
                            [NewHealthResults(0) EXCEPT
                                !.services = ServiceProbes(s),
                                !.agents   = ProbedAgents(a, outcome, ms)],
                         sent |-> << >>, failedCall |-> 0] >>
    /\ monitoringMetrics = << >>
    /\ collections = << >>
    /\ dropped = {}
    /\ scheduled = Tasks
    /\ pings = << >>
    /\ sweep = NewSweep
    /\ rollout = NewRollout

NextProbed ==
    \/ \E k \in DOMAIN checks, reading \in InfrastructureReadings :
            InfrastructureChecked(k, reading)
    \/ \E k \in DOMAIN checks : StoreResult(k)
    \/ \E k \in DOMAIN checks : SendHealthAlerts(k, 0)

SpecProbed == InitProbed /\ [][NextProbed]_vars

(***************************************************************************)
(* Properties.                                                             *)
(***************************************************************************)
Terminal == {"completed", "failed"}

StageIndex(stepName) == CHOOSE i \in 1..NumStages : Stages[i] = stepName

\* The job found under the id of run r.
JobOf(r) == jobs[deploymentStatus[runs[r].id]]

\* The positions of a step log that hold an entry of the given stage.
EntriesOf(steps, s) == {i \in DOMAIN steps : steps[i].name = Stages[s]}

HasEntry(steps, s, status) == \E i \in EntriesOf(steps, s) : steps[i].status = status

IsPrefix(a, b) == Len(a) <= Len(b) /\ SubSeq(b, 1, Len(a)) = a

\* C1: when a stage of a deployment raises, the job ends with status failed and
\* its step log holds a failed entry for exactly that stage.
C1_FailedStageRecorded ==
    \A r \in DOMAIN runs :
        runs[r].raisedAt # 0 =>
            /\ JobOf(r).status = "failed"
            /\ HasEntry(JobOf(r).steps, runs[r].raisedAt, "failed")
            /\ \A i \in DOMAIN JobOf(r).steps :
                    JobOf(r).steps[i].status = "failed" =>
                        JobOf(r).steps[i].name = Stages[runs[r].raisedAt]

\* No two deployment requests were given the same id.
DistinctIds == \A a, b \in DOMAIN runs : a # b => runs[a].id # runs[b].id

\* A step that appends no entry of a later stage to the log of a job on which
\* the error of a stage was recorded.
NoLaterStageStep ==
    \A r \in DOMAIN runs :
        runs[r].raisedAt # 0 =>
            \A i \in (Len(jobs[runs[r].failedJob].steps) + 1)
                        ..Len(jobs'[runs[r].failedJob].steps) :
                StageIndex(jobs'[runs[r].failedJob].steps[i].name) <= runs[r].raisedAt

\* C2: after a stage of a job has raised, no entry of any status is appended to
\* that job's step log for a later stage (no later stage is executed).
C2_NoLaterStageAfterError == [][NoLaterStageStep]_vars

\* C2 restricted to behaviours in which the ids are distinct.
C2_DistinctIds == [][DistinctIds' => NoLaterStageStep]_vars

\* A step that leaves every job whose status is terminal exactly as it was.
TerminalKeptStep ==
    \A j \in DOMAIN jobs : jobs[j].status \in Terminal => jobs'[j] = jobs[j]

\* C3: once a job's status is completed or failed, neither the status nor any
\* other field of the job (steps, error, end timestamps) changes again.
C3_TerminalJobImmutable == [][TerminalKeptStep]_vars

\* C3 restricted to behaviours in which the ids are distinct.
C3_DistinctIds == [][DistinctIds' => TerminalKeptStep]_vars

\* The entries of each stage are running, then completed or failed, then nothing.
StagePattern(steps) ==
    \A s \in 1..NumStages :
        LET at == EntriesOf(steps, s)
        IN /\ Cardinality(at) <= 2
           /\ \A i \in at :
                IF \A k \in at : i <= k
                THEN steps[i].status = "running"
                ELSE steps[i].status \in {"completed", "failed"}

TimeOrdered(steps) ==
    \A i, k \in DOMAIN steps : i <= k => steps[i].timestamp <= steps[k].timestamp

WellFormedStep ==
    /\ \A j \in DOMAIN jobs : IsPrefix(jobs[j].steps, jobs'[j].steps)
    /\ \A j \in DOMAIN jobs' :
            TimeOrdered(jobs'[j].steps) /\ StagePattern(jobs'[j].steps)

\* C8: every step log only grows by appending, its timestamps never decrease
\* in list order, and the entries of each stage are running followed by
\* completed or failed, with nothing for that stage after that.
C8_StepLogWellFormed == [][WellFormedStep]_vars

\* C8 restricted to behaviours in which the ids are distinct.
C8_DistinctIds == [][DistinctIds' => WellFormedStep]_vars

\* C9: stages are entered in the fixed order, a stage's running entry comes
\* only after the previous stage's completed entry, each stage is entered at
\* most once per job, and a completed job has a completed entry of all stages.
C9_StagesInOrderOnce ==
    \A j \in DOMAIN jobs :
        LET steps == jobs[j].steps
        IN /\ \A i \in DOMAIN steps :
                (steps[i].status = "running" /\ StageIndex(steps[i].name) > 1) =>
                    \E k \in 1..(i - 1) :
                        /\ steps[k].name = Stages[StageIndex(steps[i].name) - 1]
                        /\ steps[k].status = "completed"
           /\ \A s \in 1..NumStages :
                Cardinality({i \in EntriesOf(steps, s) : steps[i].status = "running"}) <= 1
           /\ jobs[j].status = "completed" =>
                \A s \in 1..NumStages : HasEntry(steps, s, "completed")

\* C9 restricted to the states in which the ids are distinct.
C9_DistinctIds == DistinctIds => C9_StagesInOrderOnce

\* C10: when deployFullSystem responds, the job exists under the returned id
\* with a non-terminal status and no stage has completed yet.
C10_ResponseBeforePipeline ==
    \A i \in DOMAIN responses :
        /\ responses[i].found
        /\ responses[i].job_status \notin Terminal
        /\ \A k \in DOMAIN responses[i].job_steps :
                responses[i].job_steps[k].status # "completed"

\* A request was answered and its job has meanwhile run to completion.
C10_Witness ==
    \E i \in DOMAIN responses :
        jobs[deploymentStatus[responses[i].deployment_id]].status = "completed"

\* C4: a stored health result has overall_status critical exactly when it holds
\* a critical alert or more than two of its services are unhealthy.
C4_CriticalIffRule ==
    \A i \in DOMAIN systemHealth.last_health_check :
        LET h == systemHealth.last_health_check[i]
        IN (h.overall_status = "critical")
               <=> (CriticalAlerts(h.alerts) > 0 \/ Unhealthy(h.services) > 2)

\* C5: when a channel call for one alert fails, every call for the other
\* alerts of the same dispatch is still delivered.
C5_OtherAlertsStillSent ==
    \A k \in DOMAIN checks :
        (checks[k].pc = "done" /\ checks[k].failedCall # 0) =>
            LET calls == ChannelCalls(checks[k].healthResults.alerts, 1)
            IN \A c \in DOMAIN calls :
                    calls[c].alert # calls[checks[k].failedCall].alert =>
                        \E d \in DOMAIN checks[k].sent : checks[k].sent[d] = calls[c]

\* C6: the metrics store never holds more samples than its capacity.
C6_StoreWithinCapacity ==
    Cardinality(DOMAIN monitoringMetrics) <= MetricsCapacity

\* The store is full and a sample has been evicted from it.
C6_Witness ==
    /\ Cardinality(DOMAIN monitoringMetrics) = MetricsCapacity
    /\ \E d \in dropped : d.evicted

\* C7: after a Record that evicts, the store holds exactly the capacity's worth
\* of samples with the greatest collection timestamps of all samples recorded:
\* no sample it dropped is newer than one it retains.
C7_RetainedAreMostRecent ==
    [][(\E d \in dropped' \ dropped : d.evicted) =>
            /\ Cardinality(DOMAIN monitoringMetrics') = MetricsCapacity
            /\ \A d \in dropped', k \in DOMAIN monitoringMetrics' :
                    d.timestamp <= monitoringMetrics'[k].timestamp]_vars

\* C11: for each of cpu_usage, memory_usage and disk_usage, a value of the
\* infrastructure snapshot above its critical bound gives a resource_critical
\* alert of severity critical for that resource in the evaluated result.
C11_ResourceAlerts ==
    \A k \in DOMAIN checks :
        checks[k].pc \in {"evaluated", "dispatch", "done"} =>
            LET h == checks[k].healthResults
                Alerted(resource) ==
                    \E i \in DOMAIN h.alerts :
                        /\ h.alerts[i].type = "resource_critical"
                        /\ h.alerts[i].severity = "critical"
                        /\ h.alerts[i].subject = resource
            IN /\ JsGreater(h.infrastructure.cpu_usage, CpuUsageCritical) => Alerted("cpu")
               /\ JsGreater(h.infrastructure.memory_usage, MemoryUsageCritical)
                        => Alerted("memory")
               /\ JsGreater(h.infrastructure.disk_usage, DiskUsageCritical) => Alerted("disk")

\* C12: an evaluated result holds exactly one service_down alert of severity
\* critical per unhealthy service and exactly one agent_down alert of severity
\* high per unhealthy agent, each naming its subject, and none for a healthy
\* service or agent.
C12_DownAlertsExact ==
    \A k \in DOMAIN checks :
        checks[k].pc \in {"evaluated", "dispatch", "done"} =>
            LET h == checks[k].healthResults
                Down(type, name) ==
                    {i \in DOMAIN h.alerts :
                        h.alerts[i].type = type /\ h.alerts[i].subject = name}
                Expected(probe) == IF probe.status = "unhealthy" THEN 1 ELSE 0
            IN /\ \A i \in DOMAIN h.services :
                    Cardinality(Down("service_down", h.services[i].name))
                        = Expected(h.services[i])
               /\ \A i \in DOMAIN h.agents :
                    Cardinality(Down("agent_down", h.agents[i].name))
                        = Expected(h.agents[i])
               /\ \A i \in DOMAIN h.alerts :
                    /\ h.alerts[i].type = "service_down" =>
                            /\ h.alerts[i].severity = "critical"
                            /\ \E j \in DOMAIN h.services :
                                    h.services[j].name = h.alerts[i].subject
                    /\ h.alerts[i].type = "agent_down" =>
                            /\ h.alerts[i].severity = "high"
                            /\ \E j \in DOMAIN h.agents :
                                    h.agents[j].name = h.alerts[i].subject

\* A result is evaluated in which a service and four agents are unhealthy and
\* the other services and agents are healthy.
C12_Witness ==
    \E k \in DOMAIN checks :
        /\ checks[k].pc = "evaluated"
        /\ Unhealthy(checks[k].healthResults.services) = 1
        /\ Unhealthy(checks[k].healthResults.agents) = 4
        /\ Len(checks[k].healthResults.alerts) >= 5

\* C13: when no channel call fails, a dispatch sends every alert through the
\* primary channel (email) exactly once and through the secondary channel
\* (WhatsApp) exactly once if its severity is critical, never otherwise.
C13_ChannelsBySeverity ==
    \A k \in DOMAIN checks :
        (checks[k].pc = "done" /\ checks[k].failedCall = 0) =>
            LET alerts == checks[k].healthResults.alerts
                Calls(i, channel) ==
                    Cardinality({c \in DOMAIN checks[k].sent :
                        checks[k].sent[c] = [alert |-> i, channel |-> channel]})
            IN \A i \in DOMAIN alerts :
                    /\ Calls(i, "email") = 1
                    /\ Calls(i, "whatsapp") = IF alerts[i].severity = "critical" THEN 1 ELSE 0

\* A dispatch of critical and high alerts has run to its end with no failure.
C13_Witness ==
    \E k \in DOMAIN checks :
        /\ checks[k].pc = "done"
        /\ checks[k].failedCall = 0
        /\ \E i, j \in DOMAIN checks[k].healthResults.alerts :
                /\ checks[k].healthResults.alerts[i].severity = "critical"
                /\ checks[k].healthResults.alerts[j].severity = "high"
        /\ Len(checks[k].sent) > Len(checks[k].healthResults.alerts)

\* The status the derivation rule gives for s unhealthy services, a unhealthy
\* agents and c critical alerts.
RuleStatus(s, a, c) ==
    IF c > 0 \/ s > 2 THEN "critical"
    ELSE IF s > 0 \/ a > 3 THEN "degraded"
    ELSE IF a > 0 THEN "warning"
    ELSE "healthy"

\* C14: for all counts s, a and c the derived overall status is critical if
\* c > 0 or s > 2, otherwise degraded if s > 0 or a > 3, otherwise warning if
\* a > 0, otherwise healthy; s=3, c=0 gives critical and s=1, a=4, c=0 degraded.
C14_StatusByRule ==
    \A k \in DOMAIN checks :
        checks[k].pc # "given" =>
            LET g      == checks[k].given
                status == checks[k].healthResults.overall_status
            IN /\ status = RuleStatus(g.s, g.a, g.c)
               /\ (g.s = 3 /\ g.c = 0) => status = "critical"
               /\ (g.s = 1 /\ g.a = 4 /\ g.c = 0) => status = "degraded"

\* The result with one unhealthy service, four unhealthy agents and no critical
\* alert has been evaluated.
C14_Witness ==
    \E k \in DOMAIN checks :
        /\ checks[k].pc = "evaluated"
        /\ checks[k].given = [s |-> 1, a |-> 4, c |-> 0]
        /\ checks[k].healthResults.overall_status = "degraded"

\* C15: the health score of a result with s unhealthy services, a unhealthy
\* agents and c critical alerts is max(0, 100 - 10*s - 5*a - 15*c), lies in
\* 0..100, and is 60 for s=2, a=1, c=1.
C15_ScoreFormula ==
    \A k \in DOMAIN checks :
        systemHealth.last_health_check = << checks[k].healthResults >> =>
            LET g     == checks[k].given
                raw   == 100 - 10 * g.s - 5 * g.a - 15 * g.c
                score == getSystemHealth.health_score
            IN /\ score = (IF raw < 0 THEN 0 ELSE raw)
               /\ score \in 0..100
               /\ (g.s = 2 /\ g.a = 1 /\ g.c = 1) => score = 60

\* The result with two unhealthy services, one unhealthy agent and one critical
\* alert is the stored one and scores 60.
C15_Witness ==
    \E k \in DOMAIN checks :
        /\ systemHealth.last_health_check = << checks[k].healthResults >>
        /\ checks[k].given = [s |-> 2, a |-> 1, c |-> 1]
        /\ getSystemHealth.health_score = 60

\* C19: at every moment the overall status GET /api/health/system exposes is
\* one of healthy, warning, degraded, critical: before the first check has
\* stored a result and after a check that ended in its catch block as well.
C19_ExposedStatusValid ==
    getSystemHealth.overall_status \in {"healthy", "warning", "degraded", "critical"}

\* A check has ended in its catch block, its own object saying unhealthy.
C19_Witness ==
    \E k \in DOMAIN checks :
        /\ checks[k].pc = "failed"
        /\ checks[k].healthResults.overall_status = "unhealthy"
        /\ getSystemHealth.overall_status = "healthy"

\* C16: every tick of the comprehensive check, of the ping sweep and of the
\* metrics collection starts a run of its task, whatever earlier runs of any
\* task did (raised an error, are still in progress): the three tasks stay
\* scheduled, and an error of a run is caught by the task's callback.
C16_TicksAlwaysStartRuns ==
    /\ scheduled = Tasks
    /\ Len(checks) < MaxChecks => ENABLED StartHealthCheck
    /\ Len(pings) < MaxPings => ENABLED PingTick
    /\ Len(collections) < MaxCollections => ENABLED StartCollection
    /\ \A p \in DOMAIN pings : pings[p] \in {"running", "done", "caught"}
    /\ \A c \in DOMAIN collections : collections[c].pc \in {"reading", "stored", "caught"}

\* Runs of all three tasks were started after an earlier run of the task had
\* raised, and a collection was started while the one before it was in progress.
C16_Witness ==
    /\ Len(pings) = 2 /\ pings[1] = "caught"
    /\ Len(checks) = 2 /\ checks[1].pc = "failed"
    /\ Len(collections) = 3
    /\ collections[1].pc = "caught"
    /\ collections[2].pc = "reading"

\* C17: a probe that fails or times out for one agent makes only that agent's
\* entry unhealthy: the sweep goes on to an entry for every agent of the
\* roster, every entry reflects its own probe's outcome, and the probe's error
\* does not end the sweep.
C17_ProbeFailureIsolated ==
    /\ sweep.pc # "failed"
    /\ \A j \in DOMAIN sweep.agents :
            /\ sweep.agents[j].name = AgentIds[j]
            /\ sweep.agents[j].status =
                    IF sweep.outcomes[Len(Services) + j] = "ok" THEN "healthy" ELSE "unhealthy"
    /\ sweep.pc = "done" => Len(sweep.agents) = Len(AgentIds)

\* A sweep has ended in which the probe of exactly one agent threw: that
\* agent is unhealthy, the ten others are healthy.
C17_Witness ==
    /\ sweep.pc = "done"
    /\ Cardinality({j \in DOMAIN sweep.agents :
            sweep.outcomes[Len(Services) + j] = "throws"}) = 1
    /\ Unhealthy(sweep.agents) = 1
    /\ Len(sweep.agents) = Len(AgentIds)
    /\ sweep.agents[1].status = "healthy"
    /\ sweep.agents[Len(AgentIds)].status = "healthy"

\* C20: within one comprehensive check the probes are in flight together: while
\* a probe is in flight, no target is left whose probe waits to be started.
C20_ProbesConcurrent ==
    sweep.pc = "probing" => sweep.started = NumTargets

\* What C18 asks of the run r of a request that lacks a required key.
SetupRefused(r) ==
    /\ ~runs[r].wrote
    /\ ~HasEntry(JobOf(r).steps, 1, "completed")
    /\ runs[r].pc = "end" =>
            /\ JobOf(r).status = "failed"
            /\ JobOf(r).error = MissingMessages[FirstMissing(runs[r].present)]

\* C18: when a required configuration key is neither in the process
\* environment nor in the supplied config, Environment Setup raises before it
\* writes the deployment configuration, the stage is never recorded completed,
\* and the job ends failed with an error naming the missing key.
C18_MissingKeyFailsSetup ==
    \A r \in DOMAIN runs : FirstMissing(runs[r].present) # 0 => SetupRefused(r)

\* C18 for deployments whose ids differ.
C18_DistinctIds == DistinctIds => C18_MissingKeyFailsSetup

\* C21: the last result exposed is always the most recent one produced:
\* from one store to the next the stored result's timestamp never decreases,
\* also when two checks overlap and finish in another order than they started.
C21_LastResultNewest ==
    [][(systemHealth.last_health_check # << >>
            /\ systemHealth'.last_health_check # << >>)
        => systemHealth'.last_health_check[1].timestamp
                >= systemHealth.last_health_check[1].timestamp]_vars

\* C22: a read of the health state at any point sees a whole result: whenever
\* a last result exists, the separately stored overall status is that result's
\* overall_status, and the stored result holds its final list of alerts.
C22_SnapshotWhole ==
    systemHealth.last_health_check # << >> =>
        LET h == systemHealth.last_health_check[1]
        IN /\ systemHealth.overall_status = h.overall_status
           /\ h.alerts = checkForAlerts(h)

\* A result with alerts and a status other than healthy is the stored one
\* while another check has its own, different result ready to store.
C22_Witness ==
    /\ systemHealth.last_health_check # << >>
    /\ Len(systemHealth.last_health_check[1].alerts) > 0
    /\ systemHealth.overall_status # "healthy"
    /\ \E k \in DOMAIN checks :
            /\ checks[k].pc = "evaluated"
            /\ checks[k].healthResults.overall_status # systemHealth.overall_status

\* What C28 asks of one step: a run that raises in it was still before its
\* store, the step leaves the stored result and status as they are, and a run
\* that has raised has dispatched nothing.
RaiseFramed ==
    /\ \A k \in DOMAIN checks :
            (checks'[k].pc = "failed" /\ checks[k].pc # "failed") =>
                /\ checks[k].pc \in {"services", "agents", "infrastructure"}
                /\ systemHealth' = systemHealth
    /\ \A k \in DOMAIN checks' :
            checks'[k].pc = "failed" =>
                checks'[k].sent = << >> /\ checks'[k].failedCall = 0

\* C28: when a step of a comprehensive check raises, the stored last result
\* and the stored overall status stay exactly as they were before that run,
\* and no alert is dispatched for that run.
C28_RaiseLeavesStoreAlone == [][RaiseFramed]_vars

\* After a first check has stored a degraded result and dispatched its alert,
\* a second check has raised; the stored result is still the first one's.
C28_Witness ==
    /\ Len(checks) = 2
    /\ checks[1].pc = "done"
    /\ checks[2].pc = "failed"
    /\ systemHealth.last_health_check = << checks[1].healthResults >>
    /\ systemHealth.overall_status = "degraded"
    /\ Len(checks[1].sent) > 0

\* C29: whenever GET /api/health/system reports the overall status healthy,
\* the health score of the same response is 100, before the first check has
\* stored a result as well.
C29_HealthyScores100 ==
    getSystemHealth.overall_status = "healthy" => getSystemHealth.health_score = 100

\* The job object the request of run r created has a terminal status.
Ended(r) == r \in DOMAIN runs /\ jobs[runs[r].dep].status \in Terminal

\* C23: every deployment job that is started eventually reaches the status
\* completed or failed, every stage operation eventually returning or raising;
\* nothing cancels, pauses or restarts it in between.
C23_EveryJobEnds ==
    \A r \in 1..MaxRequests : [](r \in DOMAIN runs => <>Ended(r))

\* C23 for deployments whose ids differ.
C23_DistinctIds ==
    \A r \in 1..MaxRequests : [](r \in DOMAIN runs => <>(Ended(r) \/ ~DistinctIds))

\* The notifications logged for the deployment id of run r.
NotificationsOf(r) ==
    {i \in DOMAIN notifications : notifications[i].id = runs[r].id}

\* A job with a terminal status has exactly one notification, of its kind.
NotifiedOnce ==
    \A r \in DOMAIN runs :
        JobOf(r).status \in Terminal =>
            /\ Cardinality(NotificationsOf(r)) = 1
            /\ \A i \in NotificationsOf(r) :
                    notifications[i].kind =
                        IF JobOf(r).status = "completed" THEN "success" ELSE "failed"

\* A notification is logged for a job whose terminal status is recorded.
NotifiedAfter ==
    Len(notifications') > Len(notifications) =>
        LET n == notifications'[Len(notifications')]
        IN jobs'[deploymentStatus'[n.id]].status =
                IF n.kind = "success" THEN "completed" ELSE "failed"

\* C24: every job that reaches a terminal status triggers exactly one
\* notification, success for completed and failure for failed, issued only
\* after the terminal status has been recorded on the job.
C24_OneNotificationPerJob == [][NotifiedOnce' /\ NotifiedAfter]_vars

\* C24 for deployments whose ids differ.
C24_DistinctIds == [][DistinctIds' => (NotifiedOnce' /\ NotifiedAfter)]_vars

\* What C27 asks of one step: no id of the map is given to another job, and an
\* existing job's record changes only by a step of the pipeline run that was
\* started for it.
RecordsKept ==
    /\ \A id \in DOMAIN deploymentStatus :
            deploymentStatus'[id] = deploymentStatus[id]
    /\ \A j \in DOMAIN jobs :
            jobs'[j] # jobs[j] => (lastRun' # 0 /\ runs[lastRun'].dep = j)

\* C27: every deployment request creates its job under an id no existing job
\* uses: a request never replaces the record of an earlier job, and the steps
\* of one job's pipeline are never appended to another job's log, also when
\* two requests arrive in the same millisecond.
C27_FreshIdPerRequest == [][RecordsKept /\ DistinctIds']_vars

\* The sub-steps of the rollout are called agent by agent in roster order,
\* each agent's in the order of SubSteps; after a sub-step has failed none is
\* called and the stage does not complete.
RolloutInOrder ==
    /\ \A i \in DOMAIN rollout.started :
            /\ rollout.started[i].agent = AgentIds[((i - 1) \div Len(SubSteps)) + 1]
            /\ rollout.started[i].substep = SubSteps[((i - 1) % Len(SubSteps)) + 1]
    /\ rollout.pc = "raised" => ~rollout.completed
    /\ rollout.completed => Len(rollout.started) = Len(AgentIds) * Len(SubSteps)

RolloutFailFast ==
    [][rollout.pc = "raised" => rollout' = rollout]_vars

\* C25: in the agent rollout the agents are deployed one at a time in roster
\* order, each through its sub-steps in order; when a sub-step of an agent
\* fails, no further sub-step and no later agent is started, and the AI Agents
\* stage is never recorded completed on the job.
C25_FailedRolloutNotCompleted ==
    \A r \in DOMAIN runs :
        runs[r].raisedAt = 4 => ~HasEntry(JobOf(r).steps, 4, "completed")

\* C25 for deployments whose ids differ.
C25_DistinctIds == DistinctIds => C25_FailedRolloutNotCompleted

\* C26: an agent gets a performance_degradation alert, of severity high, if
\* and only if its measured latency is strictly greater than the critical
\* response-time bound; a latency between the warning and the critical bound
\* gives no alert of any kind, and an agent whose probe raised gets no
\* performance_degradation alert.
C26_LatencyAlertIffAboveCritical ==
    \A k \in DOMAIN checks :
        checks[k].pc \in {"evaluated", "dispatch", "done"} =>
            LET h == checks[k].healthResults
                About(name) == {j \in DOMAIN h.alerts : h.alerts[j].subject = name}
                Slow(name) ==
                    {j \in About(name) : h.alerts[j].type = "performance_degradation"}
            IN \A i \in DOMAIN h.agents :
                LET probe == h.agents[i]
                IN /\ Cardinality(Slow(probe.name)) =
                        IF probe.response_time # Null
                              /\ probe.response_time > ResponseTimeCritical
                        THEN 1 ELSE 0
                   /\ \A j \in Slow(probe.name) : h.alerts[j].severity = "high"
                   /\ probe.response_time = Null => Slow(probe.name) = {}
                   /\ (probe.status = "healthy"
                            /\ probe.response_time >= ResponseTimeWarning
                            /\ probe.response_time <= ResponseTimeCritical)
                        => About(probe.name) = {}

\* A result is evaluated in which an agent's fetch threw and the last agent
\* answered ok after 5001 ms: the one alert about the last agent is its
\* performance_degradation alert.
C26_Witness ==
    \E k \in DOMAIN checks :
        LET h == checks[k].healthResults
        IN /\ checks[k].pc = "evaluated"
           /\ h.agents[1].response_time = Null
           /\ h.agents[Len(AgentIds)].response_time = 5001
           /\ h.agents[Len(AgentIds)].status = "healthy"
           /\ \E j \in DOMAIN h.alerts :
                /\ h.alerts[j].type = "performance_degradation"
                /\ h.alerts[j].subject = AgentIds[Len(AgentIds)]

\* C30: in every stored result the critical alerts are at least as many as the
\* unhealthy services, so the score computed from a stored result never
\* exceeds 100 - 25*(unhealthy services) - 5*(unhealthy agents).
C30_ScoreBound ==
    systemHealth.last_health_check # << >> =>
        LET h == systemHealth.last_health_check[1]
        IN /\ CriticalAlerts(h.alerts) >= Unhealthy(h.services)
           /\ getSystemHealth.health_score
                <= 100 - 25 * Unhealthy(h.services) - 5 * Unhealthy(h.agents)

\* C30 with the floor of the score: the critical alerts are at least as many
\* as the unhealthy services, and the score never exceeds
\* max(0, 100 - 25*(unhealthy services) - 5*(unhealthy agents)).
C30_ScoreBoundFloored ==
    systemHealth.last_health_check # << >> =>
        LET h == systemHealth.last_health_check[1]
        IN /\ CriticalAlerts(h.alerts) >= Unhealthy(h.services)
           /\ getSystemHealth.health_score
                <= Max0(100 - 25 * Unhealthy(h.services) - 5 * Unhealthy(h.agents))

\* A stored result with two unhealthy services and one unhealthy agent scores
\* 45, which is the bound.
C30_Witness ==
    /\ systemHealth.last_health_check # << >>
    /\ Unhealthy(systemHealth.last_health_check[1].services) = 2
    /\ Unhealthy(systemHealth.last_health_check[1].agents) = 1
    /\ getSystemHealth.health_score = 45

====
